---- MODULE Spec2Model ----
(***************************************************************************)
(* The circular-deps example of yap: two translation units, package-a.c    *)
(* and package-b.c.  Each defines one function and a main; each function   *)
(* prints a fixed line and calls the function defined in the other unit.   *)
(*                                                                         *)
(* The model has two parts:                                                *)
(*   - linking: a set of object files is handed to the linker, some with   *)
(*     their main removed; the link succeeds or fails on the symbol tables *)
(*     that the source produces;                                           *)
(*   - running: the linked program is executed one statement at a time on  *)
(*     a call stack (the chain of active calls of the C abstract machine)  *)
(*     of finite capacity, the capacity being a property of the execution  *)
(*     environment and therefore chosen nondeterministically.              *)
(***************************************************************************)
EXTENDS Naturals, Sequences, FiniteSets

\* Largest stack capacity (in frames, main's included) of the environments checked.
MaxStack == 8

----------------------------------------------------------------------------
(* The source text *)

Units == {"package-a", "package-b"}

\* printf("Package A function called\n") writes this line.
MsgA == "Package A function called"

\* printf("Package B function called\n") writes this line.
MsgB == "Package B function called"

\* Mutants of package_a_function (each a slip the source could contain).
Body_a_wrong_message ==
    << [op |-> "print", arg |-> MsgB],
       [op |-> "call", arg |-> "package_b_function"],
       [op |-> "return", arg |-> ""] >>

Body_a_prints_twice ==
    << [op |-> "print", arg |-> MsgA],
       [op |-> "print", arg |-> MsgA],
       [op |-> "call", arg |-> "package_b_function"],
       [op |-> "return", arg |-> ""] >>

Body_a_no_call ==
    << [op |-> "print", arg |-> MsgA],
       [op |-> "return", arg |-> ""] >>

Body_a_call_first ==
    << [op |-> "call", arg |-> "package_b_function"],
       [op |-> "print", arg |-> MsgA],
       [op |-> "return", arg |-> ""] >>

Body_a_calls_itself ==
    << [op |-> "print", arg |-> MsgA],
       [op |-> "call", arg |-> "package_a_function"],
       [op |-> "return", arg |-> ""] >>

\* void package_a_function(void): printf, the call of package_b_function, the
\* closing brace (the return to the caller).
Body_package_a_function ==
    << [op |-> "print", arg |-> MsgA],
       [op |-> "call", arg |-> "package_b_function"],
       [op |-> "return", arg |-> ""] >>

\* Mutants of package_b_function.
Body_b_wrong_message ==
    << [op |-> "print", arg |-> MsgA],
       [op |-> "call", arg |-> "package_a_function"],
       [op |-> "return", arg |-> ""] >>

Body_b_no_call ==
    << [op |-> "print", arg |-> MsgB],
       [op |-> "return", arg |-> ""] >>

Body_b_calls_itself ==
    << [op |-> "print", arg |-> MsgB],
       [op |-> "call", arg |-> "package_b_function"],
       [op |-> "return", arg |-> ""] >>

\* void package_b_function(void): printf, the call of package_a_function, the
\* closing brace.
Body_package_b_function ==
    << [op |-> "print", arg |-> MsgB],
       [op |-> "call", arg |-> "package_a_function"],
       [op |-> "return", arg |-> ""] >>

\* int main() of package-a.c: package_a_function(); return 0;
Body_main_a ==
    << [op |-> "call", arg |-> "package_a_function"],
       [op |-> "return", arg |-> "0"] >>

\* int main() of package-b.c: package_b_function(); return 0;
Body_main_b ==
    << [op |-> "call", arg |-> "package_b_function"],
       [op |-> "return", arg |-> "0"] >>

\* Mutant of package-b.c: the file has no main of its own.
Defs_b_without_main ==
    [s \in {"package_b_function"} |-> Body_package_b_function]

\* The external definitions of package-a.c: symbol |-> body.
Defs_package_a ==
    [s \in {"package_a_function", "main"} |->
        IF s = "main" THEN Body_main_a ELSE Body_package_a_function]

\* The external definitions of package-b.c.
Defs_package_b ==
    [s \in {"package_b_function", "main"} |->
        IF s = "main" THEN Body_main_b ELSE Body_package_b_function]

Program(u) == IF u = "package-a" THEN Defs_package_a ELSE Defs_package_b

FunctionNames == {"package_a_function", "package_b_function"}

\* The fixed message a function prints, and the function the other file defines.
MessageOf(fn) == IF fn = "package_a_function" THEN MsgA ELSE MsgB
OtherFunction(fn) ==
    IF fn = "package_a_function" THEN "package_b_function" ELSE "package_a_function"
LocalFunction(u) ==
    IF u = "package-a" THEN "package_a_function" ELSE "package_b_function"

----------------------------------------------------------------------------
(* Object files and the link *)

\* The symbols the hosted C library supplies to every link.
Libc == {"printf"}

\* The symbols a body refers to: the functions it calls, and printf when it prints.
Uses(body) ==
    {body[i].arg : i \in {j \in DOMAIN body : body[j].op = "call"}}
    \cup (IF \E i \in DOMAIN body : body[i].op = "print" THEN {"printf"} ELSE {})

\* The symbols object file u defines; a file in strip has had its main removed.
Exported(u, strip) ==
    DOMAIN Program(u) \ (IF u \in strip THEN {"main"} ELSE {})

\* The symbols object file u refers to.
Referenced(u, strip) ==
    UNION {Uses(Program(u)[s]) : s \in Exported(u, strip)}

\* The symbols u refers to and does not define itself (the C library's aside).
Undefined(u, strip) ==
    (Referenced(u, strip) \ Exported(u, strip)) \ Libc

\* The object files of the link that define symbol s.
DefinedIn(objs, strip, s) == {u \in objs : s \in Exported(u, strip)}

AllSymbols == FunctionNames \cup {"main"} \cup Libc

\* Symbols needed by the link (the startup code needs main) and defined nowhere.
Unresolved(objs, strip) ==
    {s \in AllSymbols \ Libc :
        /\ s \in ({"main"} \cup UNION {Referenced(u, strip) : u \in objs})
        /\ DefinedIn(objs, strip, s) = {}}

\* Symbols defined by more than one object file of the link.
Duplicate(objs, strip) ==
    {s \in AllSymbols : Cardinality(DefinedIn(objs, strip, s)) > 1}

LinkErrors(objs, strip) ==
    [unresolved |-> Unresolved(objs, strip), duplicate |-> Duplicate(objs, strip)]

LinkOk(objs, strip) ==
    Unresolved(objs, strip) = {} /\ Duplicate(objs, strip) = {}

----------------------------------------------------------------------------
(* State *)

VARIABLES
    status,   \* "unlinked", "link_failed", "linked", "running", "returned", "crashed"
    objs,     \* the object files handed to the linker
    strip,    \* those of them whose main was removed
    errors,   \* the linker's diagnosis
    entry,    \* the unit whose main is the program's entry point ("none" if no program)
    cap,      \* capacity of the call stack, in frames
    stack,    \* the active calls, main's first; a frame is [fn, unit, pc, log]
    out,      \* the lines written to standard output
    invoked   \* how many times each function has been entered

vars == <<status, objs, strip, errors, entry, cap, stack, out, invoked>>

Frame(fn, u) == [fn |-> fn, unit |-> u, pc |-> 1, log |-> <<>>]

Top(stk) == stk[Len(stk)]
Pop(stk) == SubSeq(stk, 1, Len(stk) - 1)
SetTop(stk, f) == [stk EXCEPT ![Len(stk)] = f]

\* The statement a frame is at.
Instr(f) == Program(f.unit)[f.fn][f.pc]

\* The unit of the linked program that defines symbol s.
Resolve(s) == CHOOSE u \in objs : s \in Exported(u, strip)

Init ==
    /\ status = "unlinked"
    /\ objs = {}
    /\ strip = {}
    /\ errors = [unresolved |-> {}, duplicate |-> {}]
    /\ entry = "none"
    /\ cap \in 1..MaxStack
    /\ stack = <<>>
    /\ out = <<>>
    /\ invoked = [f \in FunctionNames \cup {"main"} |-> 0]

----------------------------------------------------------------------------
(* Operations *)

\* The linker is run on object files o, those in s with their main removed.
Link(o, s) ==
    /\ status = "unlinked"
    /\ objs' = o
    /\ strip' = s
    /\ errors' = LinkErrors(o, s)
    /\ status' = IF LinkOk(o, s) THEN "linked" ELSE "link_failed"
    /\ entry' = IF LinkOk(o, s)
                THEN CHOOSE u \in o : "main" \in Exported(u, s)
                ELSE "none"
    /\ UNCHANGED <<cap, stack, out, invoked>>

\* The linked program is started: the startup code calls main.
Start ==
    /\ status = "linked"
    /\ status' = "running"
    /\ stack' = <<Frame("main", entry)>>
    /\ invoked' = [invoked EXCEPT !["main"] = @ + 1]
    /\ UNCHANGED <<objs, strip, errors, entry, cap, out>>

\* printf: the line is appended to standard output; control moves on.
ExecPrint(c, ins) ==
    [c EXCEPT !.out = Append(@, ins.arg),
              !.stack = SetTop(@, [Top(@) EXCEPT !.pc = @ + 1,
                                                 !.log = Append(@, <<"print", ins.arg>>)])]

\* A call: a frame for the callee is pushed; with the stack at capacity the
\* program is stopped instead (stack exhaustion).  The caller stays at the call
\* until the callee returns.
ExecCall(c, ins) ==
    IF Len(c.stack) >= cap
    THEN [c EXCEPT !.status = "crashed"]
    ELSE [c EXCEPT !.stack = Append(SetTop(@, [Top(@) EXCEPT
                                         !.log = Append(@, <<"call", ins.arg>>)]),
                                    Frame(ins.arg, Resolve(ins.arg))),
                   !.invoked = [@ EXCEPT ![ins.arg] = @ + 1]]

\* A return: the frame is popped and the caller moves past its call; main's
\* return ends the program.
ExecReturn(c, ins) ==
    IF Len(c.stack) = 1
    THEN [c EXCEPT !.stack = <<>>, !.status = "returned"]
    ELSE [c EXCEPT !.stack = SetTop(Pop(@), [Top(Pop(@)) EXCEPT !.pc = @ + 1])]

\* One statement of the frame on top of the stack.
Exec(c) ==
    LET ins == Instr(Top(c.stack))
    IN  CASE ins.op = "print"  -> ExecPrint(c, ins)
          [] ins.op = "call"   -> ExecCall(c, ins)
          [] ins.op = "return" -> ExecReturn(c, ins)

\* The running program executes its next statement.
Step ==
    /\ status = "running"
    /\ LET n == Exec([status |-> status, stack |-> stack, out |-> out,
                      invoked |-> invoked])
       IN  /\ status' = n.status
           /\ stack' = n.stack
           /\ out' = n.out
           /\ invoked' = n.invoked
    /\ UNCHANGED <<objs, strip, errors, entry, cap>>

DoLink == \E o \in SUBSET Units : \E s \in SUBSET o : Link(o, s)

Next == DoLink \/ Start \/ Step

Spec == Init /\ [][Next]_vars

\* The program, once started, keeps executing while it can: it is the only thread.
FairSpec == Init /\ [][Next]_vars /\ WF_vars(Step)

----------------------------------------------------------------------------
(* Helpers of the properties *)

\* How many lines of the output are message m.
Count(m) == Cardinality({i \in DOMAIN out : out[i] = m})

\* What one invocation of fn does, in order.
FullLog(fn) == << <<"print", MessageOf(fn)>>, <<"call", OtherFunction(fn)>> >>

IsPrefix(s, t) == Len(s) <= Len(t) /\ \A i \in 1..Len(s) : s[i] = t[i]

\* The function the linked main calls, and the function that one calls.
First == LocalFunction(entry)
Second == OtherFunction(First)

Started == status \in {"running", "returned", "crashed"}

----------------------------------------------------------------------------
(* C1 *)

\* C1 as stated: a run of the program linked with package-a's main eventually
\* returns from main.
C1_EventuallyReturns ==
    (status = "running" /\ entry = "package-a") ~> (status = "returned")

\* C1, amended: the program linked with package-a's main never returns from
\* main; main stays at its call of package_a_function for the whole run.
C1_NeverReturns ==
    (Started /\ entry = "package-a") =>
        /\ status # "returned"
        /\ stack # <<>>
        /\ stack[1].fn = "main" /\ stack[1].unit = "package-a" /\ stack[1].pc = 1

\* Both messages are out and the run has ended without reaching return 0.
C1_Witness ==
    /\ entry = "package-a" /\ status = "crashed"
    /\ Count(MsgA) >= 1 /\ Count(MsgB) >= 1

----------------------------------------------------------------------------
(* C2 *)

\* C2: with package-a's main linked, the first line written is
\* "Package A function called" and the second is "Package B function called";
\* the output holds nothing before or between them.
C2_FirstAThenB ==
    entry = "package-a" =>
        /\ Len(out) >= 1 => out[1] = "Package A function called"
        /\ Len(out) >= 2 => out[2] = "Package B function called"

C2_Witness == entry = "package-a" /\ Len(out) >= 2

----------------------------------------------------------------------------
(* C3 *)

\* C3: with package-b's main linked, the first line written is
\* "Package B function called" and the second is "Package A function called".
C3_FirstBThenA ==
    entry = "package-b" =>
        /\ Len(out) >= 1 => out[1] = "Package B function called"
        /\ Len(out) >= 2 => out[2] = "Package A function called"

C3_Witness == entry = "package-b" /\ Len(out) >= 2

----------------------------------------------------------------------------
(* C4 *)

\* C4 as stated: each message has been printed at most once, so the output
\* never exceeds two lines.
C4_AtMostTwoLines ==
    /\ Count(MsgA) <= 1
    /\ Count(MsgB) <= 1
    /\ Len(out) <= 2

\* C4, amended: the output consists only of the two messages, and each has been
\* printed at most once per invocation of its function (not once per run): the
\* output never exceeds the number of invocations made so far.
C4_OncePerInvocation ==
    /\ \A i \in DOMAIN out : out[i] \in {MsgA, MsgB}
    /\ Count(MsgA) <= invoked["package_a_function"]
    /\ Count(MsgB) <= invoked["package_b_function"]
    /\ Len(out) <= invoked["package_a_function"] + invoked["package_b_function"]

\* A run in which both messages have been printed twice.
C4_Witness == Count(MsgA) >= 2 /\ Count(MsgB) >= 2

----------------------------------------------------------------------------
(* C5 *)

\* C5 as stated: the running program is executing normally or has returned from
\* main; the stack is never exhausted.
C5_NoRuntimeError ==
    Started => status \in {"running", "returned"}

\* C5, amended: the only run-time error reachable is stack exhaustion: the
\* program is executing normally, or it was stopped by a call made with the
\* stack at capacity; it has never returned from main.
C5_OnlyStackExhaustion ==
    Started =>
        /\ status \in {"running", "crashed"}
        /\ Len(stack) >= 1 /\ Len(stack) <= cap
        /\ status = "crashed" =>
              (Len(stack) = cap /\ Instr(Top(stack)).op = "call")

\* The stack was exhausted by a call of one of the two functions.
C5_Witness ==
    /\ status = "crashed"
    /\ Len(stack) = cap
    /\ Instr(Top(stack)).arg \in FunctionNames

----------------------------------------------------------------------------
(* C6 *)

----------------------------------------------------------------------------
(* C7 *)

\* C7: every invocation of package_a_function prints its message once and then
\* calls package_b_function once, the print before the call, and symmetrically
\* for package_b_function; an invocation does nothing else, and no line of the
\* output comes from anywhere else.
C7_PrintThenCall ==
    /\ \A i \in 1..Len(stack) :
          stack[i].fn \in FunctionNames =>
             /\ IsPrefix(stack[i].log, FullLog(stack[i].fn))
             /\ i < Len(stack) =>
                   /\ stack[i].log = FullLog(stack[i].fn)
                   /\ stack[i + 1].fn = OtherFunction(stack[i].fn)
             /\ status = "crashed" => Len(stack[i].log) >= 1
    /\ Started =>
          /\ invoked["package_a_function"] + invoked["package_b_function"]
                = Len(stack) - 1
          /\ Len(out) = Cardinality({i \in 1..Len(stack) :
                           /\ stack[i].fn \in FunctionNames
                           /\ Len(stack[i].log) >= 1})

\* An invocation of each function has printed and made its call.
C7_Witness ==
    \E i, j \in 1..Len(stack) :
        /\ stack[i].fn = "package_a_function"
        /\ stack[i].log = FullLog("package_a_function")
        /\ stack[j].fn = "package_b_function"
        /\ stack[j].log = FullLog("package_b_function")

----------------------------------------------------------------------------
(* C8 *)

\* C8: the output alternates between the two messages, starting with the
\* message of the file whose main is linked; no message is printed twice in a
\* row, and the counts of the two messages differ by at most one.
C8_Alternates ==
    Started =>
        /\ \A i \in 1..Len(out) :
              out[i] = IF i % 2 = 1 THEN MessageOf(First) ELSE MessageOf(Second)
        /\ \A i \in 1..Len(out) : i > 1 => out[i] # out[i - 1]
        /\ Count(MessageOf(First)) - Count(MessageOf(Second)) \in {0, 1}

\* Four lines are out in the run that starts with package-b's message.
C8_Witness == entry = "package-b" /\ Len(out) >= 4

----------------------------------------------------------------------------
(* C9 *)

\* The shape of the call stack of a run.
StackShape ==
    (status \in {"running", "crashed"}) =>
        /\ Len(stack) >= 1
        /\ stack[1].fn = "main"
        /\ \A i \in 2..Len(stack) :
              stack[i].fn = IF i % 2 = 0 THEN First ELSE Second
        /\ (Len(stack) - 1 = Len(out)) \/ (Len(stack) - 1 = Len(out) + 1)

\* C9: the stack is main at the bottom followed by frames that alternate
\* between the two functions, starting with the linked main's local function;
\* the number of function frames is the number of lines printed, or one more;
\* and while a callee is active the stack depth never decreases.
C9_StackInvariant ==
    /\ []StackShape
    /\ [][Len(stack) >= 2 => Len(stack') >= Len(stack)]_vars

\* A deep stack whose top frame has been entered and has not printed yet.
C9_Witness ==
    /\ status = "running"
    /\ Len(stack) >= 5
    /\ Len(stack) - 1 = Len(out) + 1

====
